---------------------------- MODULE Spec2Model ----------------------------
(***************************************************************************)
(* Model of scripts/build.py: the batch that turns extracted PDF page text *)
(* into paginated case records.                                            *)
(*                                                                         *)
(*  - Text is a sequence of one-character strings.                         *)
(*  - An HTML block of `out` is a sequence of tokens: the opening <p ...>  *)
(*    tag, characters, page-marker elements and the closing </p>.  esc()   *)
(*    removes every "<" and ">" from text, so tags never arise from text.  *)
(*  - Spec     is the batch (main / write_case / volumes.json).            *)
(*  - SpecHtml is one call of build_html_with_page_markers, page by page.  *)
(***************************************************************************)
EXTENDS Integers, Sequences, FiniteSets, TLC

\* ------------------------------------------------------------------ bounds
MaxPages == 3
MaxDocs == 3
MaxRuns == 2
MaxStart == 2
SmallMax == 2
DefaultMax == 800

\* ------------------------------------------------------- character classes
Lower == {"a","b","c","d","e","f","g","h","i","j","k","l","m",
          "n","o","p","q","r","s","t","u","v","w","x","y","z"}
Upper == {"A","B","C","D","E","F","G","H","I","J","K","L","M",
          "N","O","P","Q","R","S","T","U","V","W","X","Y","Z"}
Digit == {"0","1","2","3","4","5","6","7","8","9"}
Letter == Lower \cup Upper
\* str.strip() and the regex class \s
Space == {" ", "\t", "\n", "\r"}
\* the regex class [ \t]
Blank == {" ", "\t"}
\* the regex class [a-z0-9,.;:)]
ContChars == Lower \cup Digit \cup {",", ".", ";", ":", ")"}

\* ------------------------------------------------------------ text helpers
RECURSIVE DropWhile(_, _)
DropWhile(s, cls) ==
    IF s # <<>> /\ Head(s) \in cls THEN DropWhile(Tail(s), cls) ELSE s

Front(s) == SubSeq(s, 1, Len(s) - 1)

RECURSIVE DropWhileEnd(_, _)
DropWhileEnd(s, cls) ==
    IF s # <<>> /\ s[Len(s)] \in cls THEN DropWhileEnd(Front(s), cls) ELSE s

\* str.strip()
Strip(s) == DropWhileEnd(DropWhile(s, Space), Space)

RECURSIVE Replace(_, _, _)
\* str.replace for a one-character needle
Replace(s, c, rep) ==
    IF s = <<>> THEN <<>>
    ELSE (IF Head(s) = c THEN rep ELSE <<Head(s)>>) \o Replace(Tail(s), c, rep)

\* t.replace("&","&amp;").replace("<","&lt;").replace(">","&gt;")
esc(t) ==
    Replace(Replace(Replace(t, "&", <<"&","a","m","p",";">>),
                    "<", <<"&","l","t",";">>),
            ">", <<"&","g","t",";">>)

RECURSIVE JoinWith(_, _)
\* sep.join(parts)
JoinWith(parts, sep) ==
    IF parts = <<>> THEN <<>>
    ELSE IF Len(parts) = 1 THEN parts[1]
    ELSE parts[1] \o sep \o JoinWith(Tail(parts), sep)

RECURSIVE SplitLinesAcc(_, _)
SplitLinesAcc(s, cur) ==
    IF s = <<>> THEN (IF cur = <<>> THEN <<>> ELSE <<cur>>)
    ELSE IF Head(s) = "\r" /\ Len(s) >= 2 /\ s[2] = "\n"
         THEN <<cur>> \o SplitLinesAcc(Tail(Tail(s)), <<>>)
    ELSE IF Head(s) \in {"\n", "\r"}
         THEN <<cur>> \o SplitLinesAcc(Tail(s), <<>>)
    ELSE SplitLinesAcc(Tail(s), Append(cur, Head(s)))

\* str.splitlines()
splitlines(s) == SplitLinesAcc(s, <<>>)

\* re.search(r"[A-Za-z][A-Za-z .]+\s*:", ln)
HeaderLineRx(ln) ==
    \E p \in 1..Len(ln), q \in 1..Len(ln) :
        /\ p < q
        /\ ln[p] \in Letter
        /\ ln[q] = ":"
        /\ \E r \in (p+1)..(q-1) :
              /\ \A j \in (p+1)..r : ln[j] \in Letter \cup {" ", "."}
              /\ \A j \in (r+1)..(q-1) : ln[j] \in Space

RECURSIVE SkipBlankLines(_, _)
\* while i < len(lines) and not lines[i].strip(): i += 1   (i is 0-based)
SkipBlankLines(lines, i) ==
    IF i < Len(lines) /\ Strip(lines[i+1]) = <<>>
    THEN SkipBlankLines(lines, i + 1) ELSE i

HeaderCap == 60

RECURSIVE TakeHeader(_, _, _)
\* the second while loop of split_header_body; n = len(header_lines)
TakeHeader(lines, i, n) ==
    IF i < Len(lines) /\ n < HeaderCap /\ HeaderLineRx(Strip(lines[i+1]))
    THEN TakeHeader(lines, i + 1, n + 1) ELSE i

\* split_header_body(first_page_text)[1]
split_header_body(first_page_text) ==
    LET lines == splitlines(first_page_text)
        i0 == SkipBlankLines(lines, 0)
        i1 == TakeHeader(lines, i0, 0)
    IN  IF i1 < Len(lines)
        THEN JoinWith(SubSeq(lines, i1 + 1, Len(lines)), <<"\n">>)
        ELSE <<>>

\* raw.replace("\r\n", "\n").replace("\r", "\n")
RECURSIVE NormNewlines(_)
NormNewlines(s) ==
    IF s = <<>> THEN <<>>
    ELSE IF Head(s) = "\r" /\ Len(s) >= 2 /\ s[2] = "\n"
         THEN <<"\n">> \o NormNewlines(Tail(Tail(s)))
    ELSE IF Head(s) = "\r" THEN <<"\n">> \o NormNewlines(Tail(s))
    ELSE <<Head(s)>> \o NormNewlines(Tail(s))

RECURSIVE SplitParaAcc(_, _)
\* re.split(r"\n{2,}", raw)
SplitParaAcc(s, cur) ==
    IF s = <<>> THEN <<cur>>
    ELSE IF Head(s) = "\n" /\ Len(s) >= 2 /\ s[2] = "\n"
         THEN <<cur>> \o SplitParaAcc(DropWhile(s, {"\n"}), <<>>)
    ELSE SplitParaAcc(Tail(s), Append(cur, Head(s)))

RECURSIVE Unwrap(_)
\* re.sub(r"[ \t]*\n[ \t]*", " ", c)
Unwrap(c) ==
    IF c = <<>> THEN <<>>
    ELSE LET rest == DropWhile(c, Blank)
         IN  IF rest # <<>> /\ Head(rest) = "\n"
             THEN <<" ">> \o Unwrap(DropWhile(Tail(rest), Blank))
             ELSE <<Head(c)>> \o Unwrap(Tail(c))

RECURSIVE KeepBlocks(_)
\* the for loop of normalize_blocks
KeepBlocks(chunks) ==
    IF chunks = <<>> THEN <<>>
    ELSE LET c == Strip(Head(chunks))
         IN  (IF c = <<>> THEN <<>> ELSE <<Unwrap(c)>>) \o KeepBlocks(Tail(chunks))

normalize_blocks(raw) == KeepBlocks(SplitParaAcc(NormNewlines(raw), <<>>))

\* bool(re.match(r"^[a-z0-9,.;:)]", first))
looks_cont(first) == first # <<>> /\ Head(first) \in ContChars

\* ------------------------------------------------------------- HTML tokens
\* one character of (escaped) text
Ch(c) == [k |-> "ch", c |-> c, n |-> 0]
\* the opening tag: <p> when m = 0, else <p class="has-pg ... has-pg"> (m classes)
PTag(m) == [k |-> "p", c |-> "", n |-> m]
\* </p>
PClose == [k |-> "/p", c |-> "", n |-> 0]
\* <sup class="pg" id="pg-{pg}">{pg}</sup>
Sup(pg) == [k |-> "sup", c |-> "", n |-> pg]
\* <a class="pg-left" href="#pg-{pg}">{pg}</a>
ALink(pg) == [k |-> "a", c |-> "", n |-> pg]

Text(s) == [j \in 1..Len(s) |-> Ch(s[j])]

\* f"<p>{esc(b)}</p>"
Para(b) == <<PTag(0)>> \o Text(esc(b)) \o <<PClose>>

\* [f"<p>{esc(b)}</p>" for b in blocks]
Paras(blocks) == [j \in 1..Len(blocks) |-> Para(blocks[j])]

\* el.startswith("<p>")
StartsWithPlainP(el) == el # <<>> /\ el[1] = PTag(0)

\* el.startswith("<p")
StartsWithP(el) == el # <<>> /\ el[1].k = "p"

\* lines 131-134: add the has-pg class to the opening tag
AddHasPg(last) ==
    IF last[1].k = "p" /\ last[1].n > 0
    THEN [last EXCEPT ![1] = PTag(@.n + 1)]
    ELSE IF last[1].k = "p" THEN [last EXCEPT ![1] = PTag(1)]
    ELSE last

\* lines 123-126: an empty page
EmptyPage(o, p) ==
    IF o # <<>> /\ StartsWithPlainP(o[Len(o)])
    THEN [o EXCEPT ![Len(o)] = Front(@) \o <<Sup(p), PClose>>]
    ELSE o

\* the same page handled as a fresh paragraph (what lines 142-146 do)
SpliceAsNew(o, p, blocks) ==
    Append(o, <<PTag(1), Sup(p), ALink(p), Ch(" ")>> \o Text(esc(blocks[1])) \o <<PClose>>)
        \o Paras(Tail(blocks))

\* lines 130-140: splice the page's first block into the last paragraph
Splice(o, p, blocks) ==
    LET last == AddHasPg(o[Len(o)])
        new  == Front(last) \o <<Sup(p), ALink(p), Ch(" ")>>
                    \o Text(esc(blocks[1])) \o <<PClose>>
    IN  Append(Front(o), new) \o Paras(Tail(blocks))

\* lines 142-146: the page starts a new paragraph
NewPara(o, p, blocks) ==
    Append(o, <<PTag(1), Sup(p), ALink(p), Ch(" ")>> \o Text(esc(blocks[1])) \o <<PClose>>)
        \o Paras(Tail(blocks))

\* line 129
TakesSplice(o, blocks) ==
    looks_cont(blocks[1]) /\ o # <<>> /\ StartsWithP(o[Len(o)])

\* the body of the for loop, lines 121-146, for one page
PageStep(o, p, page) ==
    LET blocks == normalize_blocks(page)
    IN  IF blocks = <<>> THEN EmptyPage(o, p)
        ELSE IF TakesSplice(o, blocks) THEN Splice(o, p, blocks)
        ELSE NewPara(o, p, blocks)

RECURSIVE PageLoop(_, _, _, _)
\* for i in range(1, len(pages_text)), from 0-based index idx0
PageLoop(o, p, pages, idx0) ==
    IF idx0 >= Len(pages) THEN o
    ELSE PageLoop(PageStep(o, p + 1, pages[idx0 + 1]), p + 1, pages, idx0 + 1)

\* "\n".join(out)
JoinOut(o) == JoinWith(o, <<Ch("\n")>>)

\* build_html_with_page_markers(pages_text, start_page_num, first_page_body_override)
build_html_with_page_markers(pages, start, override) ==
    IF pages = <<>> THEN <<>>
    ELSE JoinOut(PageLoop(Paras(normalize_blocks(override)), start, pages, 1))

\* ------------------------------------------------------------------- state
VARIABLES
    \* --- files under ROOT
    disk,            \* _data/volumes.json
    search_json,     \* _data/search.json
    citator,         \* citator.md: the rows, in order
    cases,           \* _cases/<vol>/<p0>-<slug>/index.md, the files written
    \* --- the process running main()
    vol_state,       \* the module-level dict loaded from volumes.json
    pdfs,            \* sorted(RULINGS.glob("**/*.pdf")): what each file extracts to
    idx,             \* number of pdfs the for loop has finished
    items,           \* main's list
    cur,             \* write_case's locals vol, p0, p1 between reservation and return
    pc,              \* where main() is
    run,             \* how many times the script has been started
    \* --- one call of build_html_with_page_markers
    pages_text, start_page_num, first_body, out, i, pg, hpc, result

batchVars == <<disk, search_json, citator, cases, vol_state, pdfs, idx, items, cur, pc, run>>
htmlVars == <<pages_text, start_page_num, first_body, out, i, pg, hpc, result>>
vars == <<disk, search_json, citator, cases, vol_state, pdfs, idx, items, cur, pc, run,
          pages_text, start_page_num, first_body, out, i, pg, hpc, result>>

\* ------------------------------------------------------------ sample input
\* raw page texts as the page extractor may return them
PageEmpty == <<>>
PageBlank == <<" ", "\n">>
PageCont == <<"a", "b">>
PageNew == <<"A", "b">>
PageTwo == <<"c", "\n", "\n", "D">>
PageWrap == <<"E", " ", "\n", "f", "\r", "\n", "\r", "\n", "g", "<">>
PageHeader == <<"T", "i", ":", "x">>
PageHeaderBody == <<"T", "i", ":", "x", "\n", "B", "&">>

PageTexts ==
    {PageEmpty, PageBlank, PageCont, PageNew, PageTwo, PageWrap, PageHeader, PageHeaderBody}

RECURSIVE SeqsUpTo(_, _)
\* all sequences over S of length 0..n
SeqsUpTo(S, n) ==
    IF n = 0 THEN {<<>>}
    ELSE LET shorter == SeqsUpTo(S, n - 1)
         IN  shorter \cup {Append(q, x) : q \in {r \in shorter : Len(r) = n - 1}, x \in S}

\* ------------------------------------------- build_html_with_page_markers
htmlIdle ==
    /\ pages_text = <<>> /\ start_page_num = 0 /\ first_body = <<>>
    /\ out = <<>> /\ i = 0 /\ pg = 0 /\ hpc = "idle" /\ result = <<>>

batchIdle ==
    /\ disk = [current_volume |-> 1, next_page |-> 1, max_pages_per_volume |-> DefaultMax]
    /\ vol_state = disk
    /\ search_json = <<>> /\ citator = <<>> /\ cases = {}
    /\ pdfs = <<>> /\ idx = 0 /\ items = <<>> /\ cur = <<>> /\ pc = "idle" /\ run = 0

\* the call at line 226: pages_text is non-empty (line 188), the override is
\* the body split_header_body left of page 1 (line 190), start is p0 >= 1
InitHtml ==
    /\ batchIdle
    /\ pages_text \in (SeqsUpTo(PageTexts, MaxPages) \ {<<>>})
    /\ start_page_num \in 1..MaxStart
    /\ first_body = split_header_body(pages_text[1])
    /\ out = <<>> /\ i = 0 /\ pg = 0 /\ hpc = "first" /\ result = <<>>

\* lines 113-119
HtmlFirst ==
    /\ hpc = "first"
    /\ out' = Paras(normalize_blocks(first_body))
    /\ pg' = start_page_num
    /\ i' = 1
    /\ hpc' = "loop"
    /\ UNCHANGED <<pages_text, start_page_num, first_body, result>>
    /\ UNCHANGED batchVars

\* normalize_blocks(pages_text[i]) for the page the loop is at
CurBlocks == normalize_blocks(pages_text[i + 1])

\* lines 121-126
HtmlEmptyPage ==
    /\ hpc = "loop" /\ i < Len(pages_text)
    /\ CurBlocks = <<>>
    /\ pg' = pg + 1
    /\ out' = EmptyPage(out, pg + 1)
    /\ i' = i + 1
    /\ UNCHANGED <<pages_text, start_page_num, first_body, hpc, result>>
    /\ UNCHANGED batchVars

\* lines 121-122, 127-140
HtmlSplice ==
    /\ hpc = "loop" /\ i < Len(pages_text)
    /\ CurBlocks # <<>>
    /\ TakesSplice(out, CurBlocks)
    /\ pg' = pg + 1
    /\ out' = Splice(out, pg + 1, CurBlocks)
    /\ i' = i + 1
    /\ UNCHANGED <<pages_text, start_page_num, first_body, hpc, result>>
    /\ UNCHANGED batchVars

\* lines 121-122, 127-129, 141-146
HtmlNewPara ==
    /\ hpc = "loop" /\ i < Len(pages_text)
    /\ CurBlocks # <<>>
    /\ ~TakesSplice(out, CurBlocks)
    /\ pg' = pg + 1
    /\ out' = NewPara(out, pg + 1, CurBlocks)
    /\ i' = i + 1
    /\ UNCHANGED <<pages_text, start_page_num, first_body, hpc, result>>
    /\ UNCHANGED batchVars

\* line 147
HtmlReturn ==
    /\ hpc = "loop" /\ i >= Len(pages_text)
    /\ result' = JoinOut(out)
    /\ hpc' = "done"
    /\ UNCHANGED <<pages_text, start_page_num, first_body, out, i, pg>>
    /\ UNCHANGED batchVars

NextHtml == HtmlFirst \/ HtmlEmptyPage \/ HtmlSplice \/ HtmlNewPara \/ HtmlReturn

SpecHtml == InitHtml /\ [][NextHtml]_vars

\* ------------------------------------------------------------ the allocator
\* line 207
PageCount(pt) == IF Len(pt) > 1 THEN Len(pt) ELSE 1

\* the comparison of line 208 with >= in place of >
NeedsRolloverAtLimit(st, pages) == st.next_page + pages - 1 >= st.max_pages_per_volume

\* line 208
NeedsRollover(st, pages) == st.next_page + pages - 1 > st.max_pages_per_volume

\* lines 208-210
Rollover(st, pages) ==
    IF NeedsRollover(st, pages)
    THEN [st EXCEPT !.current_volume = @ + 1, !.next_page = 1]
    ELSE st

\* line 215 without its + 1
ReserveNoAdvance(st, pages) ==
    LET s1 == Rollover(st, pages)
        p0 == s1.next_page
        p1 == p0 + pages - 1
    IN  [state |-> [s1 EXCEPT !.next_page = p1],
         vol |-> s1.current_volume, p0 |-> p0, p1 |-> p1]

\* lines 208-215: the state after the reservation and the range reserved
Reserve(st, pages) ==
    LET s1 == Rollover(st, pages)
        p0 == s1.next_page
        p1 == p0 + pages - 1
    IN  [state |-> [s1 EXCEPT !.next_page = p1 + 1],
         vol |-> s1.current_volume, p0 |-> p0, p1 |-> p1]

\* write_case without the early return of lines 188-189
SkipsCaseNever(pt) == FALSE

\* line 188: if not pages_text
SkipsCase(pt) == pt = <<>>

\* ------------------------------------------------------------- the batch
\* the j-th page of a sample ruling
SamplePage(j) ==
    IF j = 1 THEN PageHeaderBody
    ELSE IF j % 3 = 2 THEN PageCont
    ELSE IF j % 3 = 0 THEN PageEmpty
    ELSE PageNew

\* what read_pdf_pages does with a file: raises, or returns its pages' text
Unreadable == [ok |-> FALSE, pages |-> <<>>]
Readable(n) == [ok |-> TRUE, pages |-> [j \in 1..n |-> SamplePage(j)]]
\* the rulings of a batch: unreadable, without pages, one page, MaxPages pages
PdfSet == {Unreadable} \cup {Readable(n) : n \in {0, 1, MaxPages}}

\* line 14, and what an earlier run or an operator may have left in volumes.json
DefaultState ==
    [current_volume |-> 1, next_page |-> 1, max_pages_per_volume |-> DefaultMax]
InitVolStates ==
    {DefaultState}
    \cup {[DefaultState EXCEPT !.next_page = n] :
            n \in (DefaultMax - 1)..(DefaultMax + 1)}
    \cup {[DefaultState EXCEPT !.next_page = n, !.max_pages_per_volume = SmallMax] :
            n \in 1..(SmallMax + 1)}

\* lines 13-15 have run; main() is about to enter its loop
Init ==
    /\ htmlIdle
    /\ disk \in InitVolStates
    /\ vol_state = disk
    /\ search_json = <<>> /\ citator = <<>> /\ cases = {}
    /\ pdfs \in SeqsUpTo(PdfSet, MaxDocs)
    /\ idx = 0 /\ items = <<>> /\ cur = <<>>
    /\ pc = "loop" /\ run = 1

CurPdf == pdfs[idx + 1]

\* line 80 raises; neither write_case nor main catches it
WriteCaseRaise ==
    /\ pc = "loop" /\ idx < Len(pdfs)
    /\ ~CurPdf.ok
    /\ pc' = "crashed"
    /\ UNCHANGED <<disk, search_json, citator, cases, vol_state, pdfs, idx, items, cur, run>>
    /\ UNCHANGED htmlVars

\* lines 187-189 and 270-272: no pages, write_case returns None
WriteCaseSkip ==
    /\ pc = "loop" /\ idx < Len(pdfs)
    /\ CurPdf.ok
    /\ SkipsCase(CurPdf.pages)
    /\ idx' = idx + 1
    /\ UNCHANGED <<disk, search_json, citator, cases, vol_state, pdfs, items, cur, pc, run>>
    /\ UNCHANGED htmlVars

\* lines 187-215: the page range is reserved in vol_state
WriteCaseReserve ==
    /\ pc = "loop" /\ idx < Len(pdfs)
    /\ CurPdf.ok
    /\ ~SkipsCase(CurPdf.pages)
    /\ LET r == Reserve(vol_state, PageCount(CurPdf.pages))
       IN  /\ vol_state' = r.state
           /\ cur' = <<[vol |-> r.vol, p0 |-> r.p0, p1 |-> r.p1]>>
    /\ pc' = "emit"
    /\ UNCHANGED <<disk, search_json, citator, cases, pdfs, idx, items, run>>
    /\ UNCHANGED htmlVars

\* lines 217-265: index.md; the title and slug stand for the file's name
CaseFile(d, c) ==
    [path |-> <<c.vol, c.p0, d>>,
     volume |-> c.vol, page_start |-> c.p0, page_end |-> c.p1,
     html |-> build_html_with_page_markers(pdfs[d].pages, c.p0,
                 IF pdfs[d].pages = <<>> THEN <<>>
                 ELSE split_header_body(pdfs[d].pages[1]))]

\* lines 262-265: the dict write_case returns
Item(d, c) ==
    [pdf |-> d, reporter_cite |-> <<d, c.vol, c.p0>>,
     volume |-> c.vol, page_start |-> c.p0, page_end |-> c.p1]

\* line 273 moved into the loop body: the state is saved after every document
WriteCaseEmitSaving ==
    /\ pc = "emit"
    /\ LET f == CaseFile(idx + 1, cur[1])
       IN  cases' = {c \in cases : c.path # f.path} \cup {f}
    /\ items' = Append(items, Item(idx + 1, cur[1]))
    /\ idx' = idx + 1
    /\ cur' = <<>>
    /\ pc' = "loop"
    /\ disk' = vol_state
    /\ UNCHANGED <<search_json, citator, vol_state, pdfs, run>>
    /\ UNCHANGED htmlVars

\* lines 217-265 and 270-272: the case file is written, the item appended
WriteCaseEmit ==
    /\ pc = "emit"
    /\ LET f == CaseFile(idx + 1, cur[1])
       IN  cases' = {c \in cases : c.path # f.path} \cup {f}
    /\ items' = Append(items, Item(idx + 1, cur[1]))
    /\ idx' = idx + 1
    /\ cur' = <<>>
    /\ pc' = "loop"
    /\ UNCHANGED <<disk, search_json, citator, vol_state, pdfs, run>>
    /\ UNCHANGED htmlVars

\* line 275's key
RowLeq(a, b) ==
    \/ a.volume < b.volume
    \/ a.volume = b.volume /\ a.page_start <= b.page_start

RECURSIVE InsertRow(_, _)
InsertRow(sorted, x) ==
    IF sorted = <<>> THEN <<x>>
    ELSE IF RowLeq(Head(sorted), x) THEN <<Head(sorted)>> \o InsertRow(Tail(sorted), x)
    ELSE <<x>> \o sorted

RECURSIVE SortRows(_)
\* line 275: sorted(items, key=lambda x:(x["volume"], x["page_start"])), stable
SortRows(its) ==
    IF its = <<>> THEN <<>>
    ELSE InsertRow(SortRows(Front(its)), its[Len(its)])

\* lines 273-280: the loop is over; state, index and citator are written
MainSave ==
    /\ pc = "loop" /\ idx >= Len(pdfs)
    /\ disk' = vol_state
    /\ search_json' = items
    /\ citator' = [j \in 1..Len(items) |-> SortRows(items)[j].reporter_cite]
    /\ pc' = "done"
    /\ UNCHANGED <<cases, vol_state, pdfs, idx, items, cur, run>>
    /\ UNCHANGED htmlVars

\* the process is killed while main() is in its loop (between or inside documents)
Interrupt ==
    /\ pc \in {"loop", "emit"}
    /\ pc' = "interrupted"
    /\ UNCHANGED <<disk, search_json, citator, cases, vol_state, pdfs, idx, items, cur, run>>
    /\ UNCHANGED htmlVars

\* the script is started again over the same rulings: lines 13-15, then main()
Rerun ==
    /\ pc \in {"done", "interrupted", "crashed"}
    /\ run < MaxRuns
    /\ vol_state' = disk
    /\ idx' = 0 /\ items' = <<>> /\ cur' = <<>>
    /\ pc' = "loop"
    /\ run' = run + 1
    /\ UNCHANGED <<disk, search_json, citator, cases, pdfs>>
    /\ UNCHANGED htmlVars

Next ==
    \/ WriteCaseRaise
    \/ WriteCaseSkip
    \/ WriteCaseReserve
    \/ WriteCaseEmit
    \/ MainSave
    \/ Interrupt
    \/ Rerun

Spec == Init /\ [][Next]_vars

\* =================================================================== claims
\* ----- helpers of the properties below
MarkerPositions(seq) == {j \in 1..Len(seq) : seq[j].k = "sup"}
Inner(el) == SubSeq(el, 2, Len(el) - 1)

RECURSIVE SumPages(_)
SumPages(its) ==
    IF its = <<>> THEN 0 ELSE Len(pdfs[Head(its).pdf].pages) + SumPages(Tail(its))

\* every reservation made by this run so far, in order
Reservations ==
    [j \in 1..Len(items) |->
        [vol |-> items[j].volume, p0 |-> items[j].page_start, p1 |-> items[j].page_end]]
    \o cur

RECURSIVE ItemsWithoutEmpty(_, _, _)
\* the items of pdfs d..n when the zero-page files are left out of the batch
ItemsWithoutEmpty(st, d, n) ==
    IF d > n THEN <<>>
    ELSE IF pdfs[d].pages = <<>> THEN ItemsWithoutEmpty(st, d + 1, n)
    ELSE LET r == Reserve(st, Len(pdfs[d].pages))
         IN  <<Item(d, r)>> \o ItemsWithoutEmpty(r.state, d + 1, n)

\* C1: the composed body of a document of P >= 1 pages holds exactly P-1 page
\* markers, one for each of the pages 2..P, whatever the pages contain.
C1_MarkerCount ==
    hpc = "done" =>
        Cardinality(MarkerPositions(result)) = Len(pages_text) - 1

\* C2: the ranges reserved by one run are pairwise disjoint; inside a volume each
\* reservation starts at the previous page_end + 1; as long as no rollover
\* happened next_page is the loaded next_page plus the pages reserved.
C2_Ranges ==
    LET R == Reservations
    IN  /\ \A a \in 1..Len(R) : R[a].p0 <= R[a].p1
        /\ \A a \in 1..Len(items) :
              items[a].page_end - items[a].page_start + 1 = Len(pdfs[items[a].pdf].pages)
        /\ \A a, b \in 1..Len(R) :
              a < b => \/ R[a].vol < R[b].vol
                       \/ R[a].vol = R[b].vol /\ R[a].p1 < R[b].p0
        /\ \A a \in 1..(Len(R) - 1) :
              R[a + 1].vol = R[a].vol => R[a + 1].p0 = R[a].p1 + 1
        /\ (pc \in {"loop", "interrupted", "crashed"} /\ cur = <<>>
              /\ vol_state.current_volume = disk.current_volume)
           => vol_state.next_page = disk.next_page + SumPages(items)

C2_Witness ==
    /\ Len(items) >= 3
    /\ items[1].volume = items[3].volume
    /\ items[3].page_end - items[3].page_start >= 1
    /\ pc = "loop"

\* C3: from 1 <= next_page <= max + 1, every reservation of page_count >= 1
\* leaves next_page <= max + 1, i.e. every reserved page_end <= max.
C3_WithinVolume ==
    /\ vol_state.next_page <= vol_state.max_pages_per_volume + 1
    /\ \A a \in 1..Len(Reservations) :
          Reservations[a].p1 <= vol_state.max_pages_per_volume

\* C4: a reservation rolls over exactly when next_page + page_count - 1 > max:
\* then the volume grows by one and the range is 1..page_count; otherwise the
\* volume stays and the range starts at next_page.  Always page_end =
\* page_start + page_count - 1 and the new next_page = page_end + 1.
C4_Rollover ==
    [][(pc = "loop" /\ pc' = "emit") =>
        LET n == Len(CurPdf.pages)
            c == cur'[1]
        IN  /\ IF vol_state.next_page + n - 1 > vol_state.max_pages_per_volume
               THEN /\ vol_state'.current_volume = vol_state.current_volume + 1
                    /\ c.p0 = 1 /\ c.p1 = n
               ELSE /\ vol_state'.current_volume = vol_state.current_volume
                    /\ c.p0 = vol_state.next_page
            /\ c.vol = vol_state'.current_volume
            /\ c.p1 = c.p0 + n - 1
            /\ vol_state'.next_page = c.p1 + 1
            /\ vol_state'.max_pages_per_volume = vol_state.max_pages_per_volume
    ]_vars

C4_Witness ==
    /\ pc = "emit"
    /\ vol_state.max_pages_per_volume = DefaultMax
    /\ disk.next_page = DefaultMax - 1
    /\ items = <<>> /\ run = 1
    /\ cur[1].vol = disk.current_volume + 1
    /\ cur[1].p0 = 1 /\ cur[1].p1 = 3

\* C5: volumes.json is written once per run, after the last document: it keeps
\* the loaded value at every earlier point, interruptions included, while the
\* in-memory state advances.
C5_PersistedOnce ==
    /\ vol_state = disk
    /\ [][/\ disk' # disk => (pc = "loop" /\ idx = Len(pdfs) /\ pc' = "done")
          /\ (pc # "done" /\ pc' = "done") => disk' = vol_state
          /\ (run' # run) => (vol_state' = disk /\ disk' = disk)
       ]_vars

C5_Witness ==
    /\ pc = "interrupted"
    /\ items # <<>> /\ cur # <<>>
    /\ vol_state # disk
    /\ run = 1 /\ disk \in InitVolStates

\* C6: a second run over the same documents, from the state the first run
\* persisted, gives every document the volume, page range and citation of the
\* first run.
C6_Idempotent ==
    (run >= 2 /\ pc \in {"loop", "emit"}) =>
        \A a \in 1..Len(items), b \in 1..Len(search_json) :
            items[a].pdf = search_json[b].pdf => items[a] = search_json[b]

\* C7: when page extraction raises for one document the run still finishes:
\* every later readable document is indexed and the state is persisted.
C7_FailureSkipped ==
    pc \in {"done", "crashed"} =>
        /\ idx = Len(pdfs)
        /\ disk = vol_state
        /\ \A d \in 1..Len(pdfs) :
              (pdfs[d].ok /\ pdfs[d].pages # <<>>) =>
                  \E a \in 1..Len(items) : items[a].pdf = d

\* C8: a document of zero pages changes neither current_volume nor next_page,
\* writes no case and adds no item, and the documents after it get the ranges
\* they would get in a batch without it.
C8_EmptySkipped ==
    /\ [](pc \in {"loop", "interrupted", "crashed"} /\ cur = <<>>
            => items = ItemsWithoutEmpty(disk, 1, idx))
    /\ [][(pc = "loop" /\ idx < Len(pdfs) /\ idx' = idx + 1
             /\ pdfs[idx + 1].ok /\ pdfs[idx + 1].pages = <<>>)
          => (vol_state' = vol_state /\ items' = items /\ cases' = cases /\ disk' = disk)
       ]_vars

C8_Witness ==
    /\ pc = "loop" /\ idx = 3 /\ Len(pdfs) = 3
    /\ pdfs[2].ok /\ pdfs[2].pages = <<>>
    /\ Len(items) = 2 /\ items[1].pdf = 1 /\ items[2].pdf = 3
    /\ items[2].volume = items[1].volume
    /\ items[2].page_start = items[1].page_end + 1

\* C9: when page i >= 2 is non-empty, its first block is continuation-looking
\* and a block has been emitted, the marker of page i and the block's text go
\* inside the last emitted paragraph: the block count grows by the page's
\* block count minus one and every earlier block is unchanged.
C9_Splice ==
    [][(hpc = "loop" /\ i < Len(pages_text) /\ i' = i + 1
          /\ CurBlocks # <<>> /\ looks_cont(CurBlocks[1]) /\ out # <<>>)
       => LET L == Len(out)
              m == start_page_num + i
          IN  /\ Len(out') = L + Len(CurBlocks) - 1
              /\ \A k \in 1..(L - 1) : out'[k] = out[k]
              /\ Inner(out'[L]) =
                    Inner(out[L]) \o <<Sup(m), ALink(m), Ch(" ")>>
                        \o Text(esc(CurBlocks[1]))
              /\ out'[L][1].k = "p"
              /\ {j \in 1..Len(out'[L]) : out'[L][j] = PClose} = {Len(out'[L])}
              /\ \A k \in 2..Len(CurBlocks) : out'[L + k - 1] = Para(CurBlocks[k])
    ]_vars

C9_Witness ==
    /\ hpc = "done"
    /\ \E k \in 1..Len(out) : \E j \in 4..Len(out[k]) :
          out[k][j].k = "a" /\ out[k][j - 2].k = "ch"
    /\ Len(out) >= 3

\* C10: every page marker carries its page number as anchor id and as link
\* target; the numbers are page_start + i - 1 for the i-th page, increase along
\* the body and lie in (page_start, page_end].
C10_MarkersLinked ==
    hpc \in {"loop", "done"} =>
        LET body == JoinOut(out)
            M == MarkerPositions(body)
        IN  /\ \A j \in M :
                  /\ body[j + 1] = ALink(body[j].n)
                  /\ body[j].n > start_page_num
                  /\ body[j].n <= start_page_num + Len(pages_text) - 1
            /\ \A j1, j2 \in M : j1 < j2 => body[j1].n < body[j2].n

=============================================================================
